---- MODULE Spec2Model ----
(***************************************************************************)
(* mygit: a content-addressed object store (blob / tree / commit), its     *)
(* byte framing, the loose-object layout under .git/objects, the exact-    *)
(* path exclusion list and the recursive directory-to-tree walk.           *)
(*                                                                         *)
(* Byte strings are sequences of naturals 0..255.  Text is ASCII.          *)
(***************************************************************************)
EXTENDS Integers, Sequences, FiniteSets, TLC

VARIABLES
    dirs,      \* fan-out directories present under .git/objects (2 hex chars)
    files,     \* record files: <<dir, name>> -> bytes on disk
    input,     \* the object the store calls of a run are about
    last,      \* the last API call and what it returned
    nops,      \* number of API calls made so far
    stack,     \* create_tree: the active call frames, innermost last
    ignore,    \* create_tree: Ignore.entries
    walk,      \* create_tree: status / result / history of the current run
    world,     \* the working directory the walk sees (chosen at start)
    procs      \* concurrent writers: per process pc, offset, result

vars == <<dirs, files, input, last, nops, stack, ignore, walk, world, procs>>

-----------------------------------------------------------------------------
(* Bounds of the model *)

MaxBlobLen == 2
MaxOps == 3

ExtraFiles == 1

Writers == 2
Chunks == 2

-----------------------------------------------------------------------------
(* Byte-string helpers *)

Min(S) == CHOOSE x \in S : \A y \in S : x <= y

Max(S) == CHOOSE x \in S : \A y \in S : x >= y

RECURSIVE Concat(_)
Concat(ss) == IF ss = <<>> THEN <<>> ELSE Head(ss) \o Concat(Tail(ss))

\* s[from..] (1-based), empty when from is past the end
Drop(s, from) == SubSeq(s, from, Len(s))

Take(s, n) == SubSeq(s, 1, n)

\* Vec::pop: drops the last element, a no-op on the empty vector
Pop(s) == IF s = <<>> THEN <<>> ELSE SubSeq(s, 1, Len(s) - 1)

\* BufRead::read_until: everything up to and including the first delimiter,
\* or the whole remainder when the delimiter never comes
ReadUntil(s, d) ==
    LET idx == {i \in 1..Len(s) : s[i] = d}
        n == IF idx = {} THEN Len(s) ELSE Min(idx)
    IN  [taken |-> Take(s, n), rest |-> Drop(s, n + 1)]

\* decimal text of a natural number ("{}" on an unsigned integer)
RECURSIVE Dec(_)
Dec(n) == IF n < 10 THEN <<48 + n>> ELSE Dec(n \div 10) \o <<48 + (n % 10)>>

\* "{}" on a signed integer
DecInt(i) == IF i < 0 THEN <<45>> \o Dec(0 - i) ELSE Dec(i)

\* "{:02}" on a non-negative integer: at least two digits, zero padded
Pad2(n) == IF n < 10 THEN <<48>> \o Dec(n) ELSE Dec(n)

\* one lowercase hex digit
HexDigit(n) == IF n < 10 THEN 48 + n ELSE 87 + n

\* "{:02x}" on a byte
Hex2(b) == <<HexDigit(b \div 16), HexDigit(b % 16)>>

\* value of one hex digit as from_str_radix(_, 16) reads it, -1 if none
HexVal(c) ==
    IF c >= 48 /\ c <= 57 THEN c - 48
    ELSE IF c >= 97 /\ c <= 102 THEN c - 87
    ELSE IF c >= 65 /\ c <= 70 THEN c - 55
    ELSE -1

\* hash.iter().map(|b| format!("{:02x}", b)).collect()
ToHex(bytes) ==
    <<>> \o [i \in 1..(2 * Len(bytes)) |->
                IF i % 2 = 1 THEN HexDigit(bytes[(i + 1) \div 2] \div 16)
                ELSE HexDigit(bytes[i \div 2] % 16)]

\* (0..len).step_by(2).map(|i| u8::from_str_radix(&hash[i..i + 2], 16)):
\* the raw bytes of a hex string, or <<-1>> where a pair does not parse
FromHex(hex) ==
    IF Len(hex) % 2 = 1 \/ \E i \in 1..Len(hex) : HexVal(hex[i]) < 0 THEN <<-1>>
    ELSE <<>> \o [i \in 1..(Len(hex) \div 2) |->
                     16 * HexVal(hex[2 * i - 1]) + HexVal(hex[2 * i])]

\* number of bytes of the UTF-8 sequence a lead byte starts, 0 for none
Utf8Width(b) ==
    IF b < 128 THEN 1
    ELSE IF b >= 194 /\ b <= 223 THEN 2
    ELSE IF b >= 224 /\ b <= 239 THEN 3
    ELSE IF b >= 240 /\ b <= 244 THEN 4
    ELSE 0

Utf8Cont(b) == b >= 128 /\ b <= 191

\* String::from_utf8 succeeds: every byte is a lead byte followed by exactly
\* its continuation bytes, or one of those continuation bytes
IsUtf8(s) ==
    \A i \in 1..Len(s) :
        IF Utf8Cont(s[i]) THEN \E j \in 1..(i - 1) : ~Utf8Cont(s[j])
        ELSE LET k == Utf8Width(s[i])
             IN  /\ k > 0
                 /\ i + k - 1 <= Len(s)
                 /\ \A m \in (i + 1)..(i + k - 1) : Utf8Cont(s[m])
                 /\ (i + k <= Len(s) => ~Utf8Cont(s[i + k]))

S_blob == <<98, 108, 111, 98>>

S_tree == <<116, 114, 101, 101>>

S_commit == <<99, 111, 109, 109, 105, 116>>

-----------------------------------------------------------------------------
(* Library contracts: SHA-1 and zlib *)

\* number of raw bytes of a digest
HashBytes == 20

\* Sha1::input + result: a deterministic 20-byte digest of the whole input.
\* Stand-in for SHA-1: digest byte i is a position-weighted sum of the input
\* bytes i, i + 20, i + 40, ... together with the input's length.
RECURSIVE Sha1Sum(_, _)
Sha1Sum(c, j) ==
    IF j > Len(c) THEN 0
    ELSE ((c[j] + 1) * (2 * ((j - 1) \div HashBytes) + 1) + Sha1Sum(c, j + HashBytes)) % 256

Sha1Byte(c, i) == (Sha1Sum(c, i) + 7 * Len(c) + 13 * i) % 256

Sha1Raw(c) == <<>> \o [i \in 1..HashBytes |-> Sha1Byte(c, i)]

\* hasher.result_str(): 40 lowercase hex characters
Sha1Hex(c) == ToHex(Sha1Raw(c))

\* checksum trailer of the compressed stream
RECURSIVE ByteSumIn(_, _, _)
ByteSumIn(s, lo, hi) ==
    IF lo > hi THEN 0
    ELSE IF lo = hi THEN s[lo]
    ELSE LET mid == (lo + hi) \div 2
         IN  (ByteSumIn(s, lo, mid) + ByteSumIn(s, mid + 1, hi)) % 251

ByteSum(s) == (1 + ByteSumIn(s, 1, Len(s))) % 251

\* ZlibEncoder::write_all + finish: header, body, checksum
ZlibEncode(c) == <<120, 156>> \o c \o <<ByteSum(c)>>

\* ZlibDecoder read to the end: the body, or a failure on a stream that is
\* truncated, has a wrong header or a wrong checksum
ZlibDecode(z) ==
    IF /\ Len(z) >= 3
       /\ Take(z, 2) = <<120, 156>>
       /\ z[Len(z)] = ByteSum(SubSeq(z, 3, Len(z) - 1))
    THEN [ok |-> TRUE, data |-> SubSeq(z, 3, Len(z) - 1)]
    ELSE [ok |-> FALSE, data |-> <<>>]

-----------------------------------------------------------------------------
(* Objects and their display forms *)

Blob(data) == [type |-> "blob", data |-> data, entries |-> <<>>]

Tree(entries) == [type |-> "tree", data |-> <<>>, entries |-> entries]

Commit(c) == [type |-> "commit", commit |-> c]

NoObject == [type |-> "none", data |-> <<>>, entries |-> <<>>]

Entry(mode, filename, hash) == [mode |-> mode, filename |-> filename, hash |-> hash]

\* impl Display for User: "{} <{}>"
UserDisplay(u) == u.name \o <<32, 60>> \o u.email \o <<62>>

\* the minutes field of the zone as the Display impl computes it
ZoneMinutes(offset) == offset % 3600

\* impl Display for Timestamp: "{} {sign}{hours:02}{minutes:02}"
TimestampDisplay(t) ==
    LET sign == IF t.offset < 0 THEN 45 ELSE 43
        offset == IF t.offset < 0 THEN 0 - t.offset ELSE t.offset
        hours == offset \div 3600
        minutes == ZoneMinutes(offset)
    IN  DecInt(t.seconds) \o <<32, sign>> \o Pad2(hours) \o Pad2(minutes)

-----------------------------------------------------------------------------
(* Object::write, the encoding half (the match on self) *)

\* one entry of a tree payload: mode, space, filename, NUL, raw hash bytes;
\* <<-1>> when the hash is not hex
EntryBytes(e) ==
    LET raw == FromHex(e.hash)
    IN  IF raw = <<-1>> THEN <<-1>>
        ELSE e.mode \o <<32>> \o e.filename \o <<0>> \o raw

RECURSIVE TreeContent(_)
TreeContent(entries) ==
    IF entries = <<>> THEN <<>>
    ELSE LET h == EntryBytes(Head(entries))
             t == TreeContent(Tail(entries))
         IN  IF h = <<-1>> \/ t = <<-1>> THEN <<-1>> ELSE h \o t

RECURSIVE ParentLines(_)
ParentLines(parents) ==
    IF parents = <<>> THEN <<>>
    ELSE <<112, 97, 114, 101, 110, 116, 32>> \o Head(parents) \o <<10>>
         \o ParentLines(Tail(parents))

\* the text of a commit: tree line, parent lines, author, committer, blank
\* line, message, newline; Show is the display form of a timestamp
CommitText(c, Show(_)) ==
    S_tree \o <<32>> \o c.tree \o <<10>>
    \o ParentLines(c.parents)
    \o <<97, 117, 116, 104, 111, 114, 32>> \o UserDisplay(c.author) \o <<32>>
    \o Show(c.author_timestamp) \o <<10>>
    \o <<99, 111, 109, 109, 105, 116, 116, 101, 114, 32>> \o UserDisplay(c.committer) \o <<32>>
    \o Show(c.committer_timestamp) \o <<10, 10>>
    \o c.message \o <<10>>

CommitContent(c) == CommitText(c, TimestampDisplay)

\* "<type> <len>\0" followed by the payload
Frame(type, payload) == type \o <<32>> \o Dec(Len(payload)) \o <<0>> \o payload

\* let content = match self { ... }: the framed bytes, <<-1>> on the error
\* return of the Tree arm
Content(obj) ==
    IF obj.type = "blob" THEN Frame(S_blob, obj.data)
    ELSE IF obj.type = "tree" THEN
        LET tc == TreeContent(obj.entries)
        IN  IF tc = <<-1>> THEN <<-1>> ELSE Frame(S_tree, tc)
    ELSE Frame(S_commit, CommitContent(obj.commit))

-----------------------------------------------------------------------------
(* The store: .git/objects/<2 hex>/<38 hex> *)

\* format!(".git/objects/{}", &hash[..2]) and &hash[2..]
Address(hash) == <<Take(hash, 2), Drop(hash, 3)>>

\* a write that never finds the record present
ExistsNever(fs, hash) == FALSE

\* filepath.exists()
Exists(fs, hash) == Address(hash) \in DOMAIN fs

\* the file system after fs::write put `bytes` at the address of `hash`
PutFile(fs, hash, bytes) ==
    [a \in DOMAIN fs \cup {Address(hash)} |-> IF a = Address(hash) THEN bytes ELSE fs[a]]

\* where a failing fs::write may stop: before any byte, or half way
PartialCuts(z) == {0, Len(z) \div 2}

\* what can happen to the file system calls of one write
Outcomes == {"ok", "mkdir_err", "create_err", "write_err"}

\* Object::write as one call: [ok, hash, dirs, files, existed].
\* `how` is the fate of its file system calls, `cut` the number of bytes
\* a failing fs::write leaves.
Write(d, fs, obj, how, cut) ==
    LET content == Content(obj)
        hash == Sha1Hex(content)
        z == ZlibEncode(content)
        fail(d2, fs2) == [ok |-> FALSE, hash |-> <<>>, dirs |-> d2, files |-> fs2, existed |-> FALSE]
    IN  IF content = <<-1>> THEN fail(d, fs)
        ELSE IF Exists(fs, hash)
            THEN [ok |-> TRUE, hash |-> hash, dirs |-> d, files |-> fs, existed |-> TRUE]
        ELSE IF how = "mkdir_err" THEN fail(d, fs)
        ELSE IF how = "create_err" THEN fail(d \cup {Take(hash, 2)}, fs)
        ELSE IF how = "write_err"
            THEN fail(d \cup {Take(hash, 2)}, PutFile(fs, hash, Take(z, cut)))
        ELSE [ok |-> TRUE, hash |-> hash, dirs |-> d \cup {Take(hash, 2)},
              files |-> PutFile(fs, hash, z), existed |-> FALSE]

-----------------------------------------------------------------------------
(* Object::from_hash *)

ReadErr(why) == [ok |-> FALSE, obj |-> NoObject, err |-> why]

\* the while loop of the "tree" arm over the bytes still unread:
\* [ok, entries]
RECURSIVE DecodeEntries(_)
DecodeEntries(rest) ==
    IF rest = <<>> THEN [ok |-> TRUE, entries |-> <<>>]
    ELSE LET m == ReadUntil(rest, 32)
             mode == Pop(m.taken)
             f == ReadUntil(m.rest, 0)
             filename == Pop(f.taken)
         IN  IF Len(f.rest) < HashBytes THEN [ok |-> FALSE, entries |-> <<>>]
             ELSE IF ~IsUtf8(mode) \/ ~IsUtf8(filename) THEN [ok |-> FALSE, entries |-> <<>>]
             ELSE LET more == DecodeEntries(Drop(f.rest, HashBytes + 1))
                  IN  IF ~more.ok THEN more
                      ELSE [ok |-> TRUE,
                            entries |-> <<Entry(mode, filename, ToHex(Take(f.rest, HashBytes)))>>
                                        \o more.entries]

\* the bytes handed to the "blob" arm after the type token was read
BlobData(rest) == rest

FromHash(fs, hash) ==
    IF Address(hash) \notin DOMAIN fs THEN ReadErr("NotFound")
    ELSE LET z == ZlibDecode(fs[Address(hash)])
         IN  IF ~z.ok THEN ReadErr("Corrupt")
             ELSE LET t == ReadUntil(z.data, 32)
                      object_type == Pop(t.taken)
                  IN  IF ~IsUtf8(object_type) THEN ReadErr("Utf8")
                      ELSE IF object_type = S_blob
                          THEN [ok |-> TRUE, obj |-> Blob(BlobData(t.rest)), err |-> ""]
                      ELSE IF object_type = S_tree
                          THEN LET d == DecodeEntries(t.rest)
                               IN  IF d.ok THEN [ok |-> TRUE, obj |-> Tree(d.entries), err |-> ""]
                                   ELSE ReadErr("InvalidFormat")
                      ELSE ReadErr("InvalidFormat")

-----------------------------------------------------------------------------
(* Sequential use of the store: write and from_hash calls, one after the  *)
(* other, on blobs and trees drawn from a small universe.                  *)

SeqsUpTo(S, n) == UNION {[1..k -> S] : k \in 0..n}

\* blob contents: NUL, space and a letter
BlobBytes == {0, 32, 104}

Blobs == {Blob(b) : b \in SeqsUpTo(BlobBytes, MaxBlobLen)}

\* a digest whose raw bytes contain NUL, space and bytes above 127
OddHash ==
    ToHex([i \in 1..HashBytes |-> IF i = 1 THEN 0 ELSE IF i = 2 THEN 32 ELSE (37 * i) % 256])

\* entries in filename order: a regular file, an executable whose name has a
\* space, a directory
EntryUniverse ==
    <<Entry(<<49, 48, 48, 54, 52, 52>>, <<97>>, Sha1Hex(Content(Blob(<<104>>)))),
      Entry(<<49, 48, 48, 55, 53, 53>>, <<98, 32, 99>>, OddHash),
      Entry(<<48, 52, 48, 48, 48, 48>>, <<100>>, Sha1Hex(Content(Tree(<<>>))))>>

\* the elements of s at the indices in I, in order
RECURSIVE Pick(_, _)
Pick(s, I) == IF I = {} THEN <<>> ELSE <<s[Min(I)]>> \o Pick(s, I \ {Min(I)})

Trees == {Tree(Pick(EntryUniverse, I)) : I \in SUBSET (1..Len(EntryUniverse))}

NoFiles == [a \in {} |-> <<>>]

NoCall ==
    [op |-> "none", ok |-> FALSE, hash |-> <<>>, existed |-> FALSE,
     out |-> NoObject, err |-> "", raw |-> <<>>]

\* status and result of the walk, and its history: the directory and the
\* call a fault struck, the trees written per directory, the hashes the
\* write calls returned, the address of a record a failing write left torn,
\* whether some directory was enumerated out of filename order
NoWalk ==
    [status |-> "idle", result |-> <<>>, failed |-> <<>>, fault |-> "", trees |-> {},
     wrote |-> {}, torn |-> <<>>, shuffled |-> FALSE]

Idle ==
    /\ stack = <<>>
    /\ ignore = {}
    /\ walk = NoWalk
    /\ world = <<>>
    /\ procs = <<>>

\* a record written by an earlier run: the store is not empty to begin with
Seed == Blob(<<111>>)

SeedStore == Write({}, NoFiles, Seed, "ok", 0)

Init ==
    /\ input \in Blobs \cup Trees
    /\ \E seeded \in BOOLEAN :
          /\ dirs = IF seeded THEN SeedStore.dirs ELSE {}
          /\ files = IF seeded THEN SeedStore.files ELSE NoFiles
    /\ last = NoCall
    /\ nops = 0
    /\ Idle

\* one Object::write call on object o, its file system calls faring `how`
CallWrite(o, how, cut) ==
    LET r == Write(dirs, files, o, how, cut)
    IN  /\ dirs' = r.dirs
        /\ files' = r.files
        /\ last' = [op |-> "write", ok |-> r.ok, hash |-> r.hash,
                    existed |-> r.existed, out |-> NoObject, err |-> "", raw |-> <<>>]

Cuts(o, how) == IF how = "write_err" THEN PartialCuts(ZlibEncode(Content(o))) ELSE {0}

\* input.write()
WriteInput ==
    /\ nops < MaxOps
    /\ nops' = nops + 1
    /\ \E how \in Outcomes : \E cut \in Cuts(input, how) : CallWrite(input, how, cut)
    /\ UNCHANGED <<input, stack, ignore, walk, world, procs>>

\* Object::from_hash on the hash the last write returned
ReadBack ==
    /\ nops < MaxOps
    /\ last.hash # <<>>
    /\ nops' = nops + 1
    /\ LET r == FromHash(files, last.hash)
       IN  last' = [last EXCEPT !.op = "read", !.ok = r.ok, !.out = r.obj, !.err = r.err]
    /\ UNCHANGED <<dirs, files, input, stack, ignore, walk, world, procs>>

Next == WriteInput \/ ReadBack

Spec == Init /\ [][Next]_vars

-----------------------------------------------------------------------------
(* commit-tree followed by the decode tool: the commit's bytes as stored *)

User(name, email) == [name |-> name, email |-> email]

Timestamp(seconds, offset) == [seconds |-> seconds, offset |-> offset]

\* seconds since the epoch as Timestamp::now may return them
Seconds == {0, 1700000000}

\* local_minus_utc() of real zones: UTC, +01:00, +05:30, -05:00, -03:30,
\* +05:45, +12:45, -12:00, +14:00
ZoneOffsets == {0, 3600, 19800, -18000, -12600, 20700, 45900, -43200, 50400}

Commits ==
    {Commit([tree |-> Sha1Hex(Content(Tree(<<>>))),
             parents |-> ps,
             author |-> User(<<74>>, <<106, 64, 120>>),
             author_timestamp |-> Timestamp(s1, o),
             committer |-> User(<<74>>, <<106, 64, 120>>),
             committer_timestamp |-> Timestamp(s2, o),
             message |-> <<109>>]) :
        ps \in {<<>>, <<OddHash>>}, s1 \in Seconds, s2 \in Seconds, o \in ZoneOffsets}

InitCommit ==
    /\ input \in Commits
    /\ dirs = {}
    /\ files = NoFiles
    /\ last = NoCall
    /\ nops = 0
    /\ Idle

\* main, "commit-tree": commit.write()
CommitTree ==
    /\ nops = 0
    /\ nops' = 1
    /\ \E how \in Outcomes : \E cut \in Cuts(input, how) : CallWrite(input, how, cut)
    /\ UNCHANGED <<input, stack, ignore, walk, world, procs>>

\* the decode tool: the decompressed bytes of the record, as read to the end
DecodeTool ==
    /\ nops = 1
    /\ last.op = "write"
    /\ last.ok
    /\ nops' = 2
    /\ LET z == ZlibDecode(files[Address(last.hash)])
       IN  last' = [last EXCEPT !.op = "decode", !.ok = z.ok, !.raw = z.data]
    /\ UNCHANGED <<dirs, files, input, stack, ignore, walk, world, procs>>

NextCommit == CommitTree \/ DecodeTool

SpecCommit == InitCommit /\ [][NextCommit]_vars

-----------------------------------------------------------------------------
(* Claims about the codec and the store under sequential use *)

\* C1 (as claimed): a blob written and read back by the returned hash
\* decodes to exactly the bytes written, without any part of the header.
C1_BlobRoundTrip ==
    (last.op = "read" /\ input.type = "blob") => (last.ok /\ last.out = input)

\* C2 (as claimed): a tree with a filename-sorted entry list written and read
\* back by the returned hash decodes to the same entries, position by
\* position.
C2_TreeRoundTrip ==
    (last.op = "read" /\ input.type = "tree") => (last.ok /\ last.out = input)

InputAddress == Address(Sha1Hex(Content(input)))

\* C3: a write of an object whose address already holds a record returns the
\* hash the earlier write returned and changes nothing in the store; no
\* write ever modifies or removes a record that is present.
C3_IdempotentWrite ==
    [][(nops' = nops + 1 /\ last'.op = "write") =>
          /\ \A a \in DOMAIN files : a \in DOMAIN files' /\ files'[a] = files[a]
          /\ InputAddress \in DOMAIN files =>
                /\ files' = files
                /\ dirs' = dirs
                /\ last'.ok
                /\ Address(last'.hash) = InputAddress
                /\ last.hash # <<>> => last'.hash = last.hash]_vars

\* C3 witness: a second write of the input found its record next to the
\* seed record and returned
C3_Witness ==
    /\ last.op = "write"
    /\ last.existed
    /\ last.ok
    /\ nops >= 2
    /\ Cardinality(DOMAIN files) >= 2

\* the display form the claim gives: sign, HH = |o| div 3600 and
\* MM = (|o| mod 3600) div 60, two digits each
ClaimedDisplay(t) ==
    LET sign == IF t.offset < 0 THEN 45 ELSE 43
        offset == IF t.offset < 0 THEN 0 - t.offset ELSE t.offset
    IN  DecInt(t.seconds) \o <<32, sign>> \o Pad2(offset \div 3600)
        \o Pad2((offset % 3600) \div 60)

\* C6 (as claimed): the author and committer lines of a stored commit carry
\* "<s> <sign><HH><MM>", a zone of exactly 5 characters.
C6_TimestampDisplay ==
    (last.op = "decode" /\ last.ok) =>
        last.raw = Frame(S_commit, CommitText(input.commit, ClaimedDisplay))

-----------------------------------------------------------------------------
(* Paths and the exclusion list (Ignore) *)

\* the process's current directory, "/w"
Cwd == <<47, 119>>

\* the pieces of s between the separators at the positions in cuts
RECURSIVE Pieces(_, _, _)
Pieces(s, from, cuts) ==
    IF cuts = {} THEN <<SubSeq(s, from, Len(s))>>
    ELSE LET c == Min(cuts)
         IN  <<SubSeq(s, from, c - 1)>> \o Pieces(s, c + 1, cuts \ {c})

\* slice::split(|&b| b == sep)
Split(s, sep) == Pieces(s, 1, {i \in 1..Len(s) : s[i] = sep})

\* Path::components after strip_prefix("."): no empty and no "." pieces
RECURSIVE Components(_)
Components(ps) ==
    IF ps = <<>> THEN <<>>
    ELSE IF Head(ps) = <<>> \/ Head(ps) = <<46>> THEN Components(Tail(ps))
    ELSE <<Head(ps)>> \o Components(Tail(ps))

RECURSIVE JoinPath(_)
JoinPath(cs) == IF cs = <<>> THEN <<>> ELSE <<47>> \o Head(cs) \o JoinPath(Tail(cs))

\* std::path::absolute: the current directory in front of a relative path,
\* "." pieces and repeated separators dropped, ".." and a trailing
\* separator kept, nothing looked up on disk
Absolute(path) ==
    LET base == IF path # <<>> /\ path[1] = 47 THEN <<>> ELSE Cwd
        tail == IF path # <<>> /\ path[Len(path)] = 47 THEN <<47>> ELSE <<>>
    IN  base \o JoinPath(Components(Split(path, 47))) \o tail

\* str::trim_end_matches('/')
TrimSlashes(s) ==
    LET keep == {i \in 1..Len(s) : s[i] # 47}
    IN  IF keep = {} THEN <<>> ELSE Take(s, Max(keep))

\* the ".git" directory name
DotGit == <<46, 103, 105, 116>>

\* Ignore::new: the kept lines of .gitignore made absolute and trimmed,
\* and always the absolute .git; ignorefile is <<-1>> when there is no file
IgnoreNew(ignorefile) ==
    LET lines == IF ignorefile = <<-1>> THEN <<>> ELSE Split(ignorefile, 10)
        kept == {i \in 1..Len(lines) : lines[i] # <<>> /\ lines[i][1] # 35}
    IN  {TrimSlashes(Absolute(lines[i])) : i \in kept} \cup {Absolute(DotGit)}

\* an exclusion test that matches on a string prefix
IgnoreContainsPrefix(entries, path) ==
    \E e \in entries : Len(e) <= Len(Absolute(path)) /\ Take(Absolute(path), Len(e)) = e

\* Ignore::contains: the absolute form of the path is one of the entries
IgnoreContains(entries, path) == Absolute(path) \in entries

-----------------------------------------------------------------------------
(* The working directory that write-tree walks *)

\* .gitignore: absent; "d/a"; a comment, an empty line and "d/"; "./b"
IgnoreFiles ==
    {<<-1>>,
     <<100, 47, 97, 10>>,
     <<35, 32, 99, 10, 10, 100, 47, 10>>,
     <<46, 47, 98>>}

Worlds == {[ignorefile |-> g, bad |-> b] : g \in IgnoreFiles, b \in BOOLEAN}

Node(kind, exec, data) == [kind |-> kind, exec |-> exec, data |-> data]

\* ./.git/HEAD, ./b (executable), ./d/a, ./d/ab, ./d/l (a symlink to a
\* directory that holds t), the files ./e1, ./e2, ... and, in a bad world, ./d/<0xff> whose name is not
\* UTF-8
Nodes(w) ==
    LET fixed ==
            [p \in {<<46, 47, 101, 48 + k>> : k \in 1..ExtraFiles} |->
                Node("file", FALSE, <<119, p[4]>>)] @@
            (<<46, 47>> \o DotGit) :> Node("dir", FALSE, <<>>)
         @@ (<<46, 47>> \o DotGit \o <<47, 72, 69, 65, 68>>) :> Node("file", FALSE, <<114>>)
         @@ <<46, 47, 98>> :> Node("file", TRUE, <<120>>)
         @@ <<46, 47, 100>> :> Node("dir", FALSE, <<>>)
         @@ <<46, 47, 100, 47, 97>> :> Node("file", FALSE, <<120>>)
         @@ <<46, 47, 100, 47, 97, 98>> :> Node("file", FALSE, <<121>>)
         @@ <<46, 47, 100, 47, 108>> :> Node("symlink", FALSE, <<>>)
         @@ <<46, 47, 100, 47, 108, 47, 116>> :> Node("file", FALSE, <<116>>)
    IN  IF w.bad THEN fixed @@ (<<46, 47, 100, 47, 255>> :> Node("file", FALSE, <<122>>))
        ELSE fixed

\* fs::read_dir(dir): the paths of the direct children, dir joined with
\* each file name
Children(w, dir) ==
    {p \in DOMAIN Nodes(w) :
        /\ Len(p) > Len(dir) + 1
        /\ Take(p, Len(dir) + 1) = dir \o <<47>>
        /\ \A i \in (Len(dir) + 2)..Len(p) : p[i] # 47}

\* fs_entry.file_name()
FileName(p) == Drop(p, Max({0} \cup {i \in 1..Len(p) : p[i] = 47}) + 1)

\* the directory a path lies in
Parent(p) == Take(p, Max({1} \cup {i \in 1..Len(p) : p[i] = 47}) - 1)

-----------------------------------------------------------------------------
(* create_tree *)

\* String::cmp: byte-wise lexicographic order
LexLess(a, b) ==
    \E k \in 1..(Len(b)) :
        /\ \A i \in 1..(k - 1) : i <= Len(a) /\ a[i] = b[i]
        /\ (k > Len(a) \/ a[k] < b[k])

\* e put behind the elements of the sorted list whose filename is not greater
InsertEntry(sorted, e) ==
    LET before == {i \in 1..Len(sorted) : ~LexLess(e.filename, sorted[i].filename)}
        n == IF before = {} THEN 0 ELSE Max(before)
    IN  Take(sorted, n) \o <<e>> \o Drop(sorted, n + 1)

RECURSIVE StableSort(_)
StableSort(es) ==
    IF es = <<>> THEN <<>> ELSE InsertEntry(StableSort(Pop(es)), es[Len(es)])

\* a walk that keeps the entries in enumeration order
Unsorted(es) == es

\* entries.sort_by(|a, b| a.filename.cmp(&b.filename))
SortEntries(es) == StableSort(es)

\* what can go wrong with one child: the directory iterator, file_type(),
\* read_dir() of a subdirectory, metadata(), fs::read, and the blob write
Faults ==
    {"none", "entry", "file_type", "read_dir", "metadata", "read",
     "mkdir_err", "create_err", "write_err"}

ModeOf(node) ==
    IF node.exec THEN <<49, 48, 48, 55, 53, 53>> ELSE <<49, 48, 48, 54, 52, 52>>

ModeDir == <<48, 52, 48, 48, 48, 48>>

\* a read whose failure yields empty content
ReadFileOrEmpty(node, fault) == IF fault = "read" THEN <<>> ELSE node.data

\* fs::read(path).or(Err(InvalidObjectFormat)): the file's bytes, <<-1>> on
\* a failure
ReadFile(node, fault) == IF fault = "read" THEN <<-1>> ELSE node.data

\* a blob write that returns the hash and stores nothing
BlobWriteDry(d, fs, data, how, cut) ==
    [ok |-> TRUE, hash |-> Sha1Hex(Content(Blob(data))), dirs |-> d, files |-> fs,
     existed |-> FALSE]

\* Object::Blob(fs::read(path)...).write()
BlobWrite(d, fs, data, how, cut) == Write(d, fs, Blob(data), how, cut)

\* the stage of the loop body at which a fault strikes child c, "" when the
\* body never gets to the call the fault is about (a write that finds its
\* record present makes no further file system call)
FaultStage(w, ign, fs, c, fault) ==
    LET node == Nodes(w)[c]
        named == IsUtf8(c) /\ IsUtf8(FileName(c))
        typed == named /\ ~IgnoreContains(ign, c)
        isfile == typed /\ node.kind = "file"
    IN  IF fault = "none" THEN "none"
        ELSE IF fault = "entry" THEN "entry"
        ELSE IF fault = "file_type" /\ typed THEN "file_type"
        ELSE IF fault = "read_dir" /\ typed /\ node.kind = "dir" THEN "read_dir"
        ELSE IF fault = "metadata" /\ typed /\ node.kind # "dir" THEN "metadata"
        ELSE IF fault = "read" /\ isfile THEN "read"
        ELSE IF /\ fault \in {"mkdir_err", "create_err", "write_err"}
                /\ isfile
                /\ ~Exists(fs, Sha1Hex(Content(Blob(node.data))))
            THEN "write"
        ELSE ""

\* one turn of the for loop of create_tree on child c of the directory in
\* the top frame: [kind, entry, dirs, files, torn] with kind
\*   "skip"  continue without an entry,
\*   "enter" the recursive call on c begins,
\*   "push"  a blob was written and its entry pushed,
\*   "err"   the error return
Visit(w, ign, d, fs, c, fault, cut) ==
    LET node == Nodes(w)[c]
        filename == FileName(c)
        none == Entry(<<>>, <<>>, <<>>)
        out(kind, e, d2, fs2, torn) ==
            [kind |-> kind, entry |-> e, dirs |-> d2, files |-> fs2, torn |-> torn]
    IN  IF fault = "entry" THEN out("err", none, d, fs, <<>>)
        ELSE IF ~IsUtf8(c) \/ ~IsUtf8(filename) THEN out("err", none, d, fs, <<>>)
        ELSE IF IgnoreContains(ign, c) THEN out("skip", none, d, fs, <<>>)
        ELSE IF fault = "file_type" THEN out("err", none, d, fs, <<>>)
        ELSE IF node.kind = "dir" THEN
            IF fault = "read_dir" THEN out("err", none, d, fs, <<>>)
            ELSE out("enter", Entry(ModeDir, filename, <<>>), d, fs, <<>>)
        ELSE IF fault = "metadata" THEN out("err", none, d, fs, <<>>)
        ELSE IF node.kind = "symlink" THEN out("skip", none, d, fs, <<>>)
        ELSE IF ReadFile(node, fault) = <<-1>> THEN out("err", none, d, fs, <<>>)
        ELSE LET r == BlobWrite(d, fs, ReadFile(node, fault), fault, cut)
             IN  IF r.ok THEN out("push", Entry(ModeOf(node), filename, r.hash),
                                  r.dirs, r.files, <<>>)
                 ELSE out("err", none, r.dirs, r.files,
                          IF r.files = fs THEN <<>>
                          ELSE Address(Sha1Hex(Content(Blob(node.data)))))


\* the call frame of create_tree(path): the children read_dir has yet to
\* yield, the entries pushed so far
NewFrame(w, path) == [path |-> path, todo |-> Children(w, path), entries |-> <<>>]

Top == stack[Len(stack)]

InitWalk ==
    /\ world \in Worlds
    /\ input = NoObject
    /\ dirs = {}
    /\ files = NoFiles
    /\ last = NoCall
    /\ nops = 0
    /\ stack = <<>>
    /\ ignore = {}
    /\ walk = NoWalk
    /\ procs = <<>>

\* main, "write-tree": Ignore::new(), then create_tree(".") reads the directory
StartWalk ==
    /\ walk.status = "idle"
    /\ ignore' = IgnoreNew(world.ignorefile)
    /\ stack' = <<NewFrame(world, <<46>>)>>
    /\ walk' = [walk EXCEPT !.status = "running"]
    /\ UNCHANGED <<dirs, files, input, last, nops, world, procs>>

\* read_dir(".") fails
StartFails ==
    /\ walk.status = "idle"
    /\ ignore' = IgnoreNew(world.ignorefile)
    /\ walk' = [walk EXCEPT !.status = "err", !.failed = <<46>>, !.fault = "read_dir"]
    /\ UNCHANGED <<dirs, files, input, last, nops, stack, world, procs>>

\* the state after one turn of the loop on child c ended as r
AfterVisit(c, r, fault) ==
    LET n == Len(stack)
        rest == [Top EXCEPT !.todo = @ \ {c}]
    IN  /\ dirs' = r.dirs
        /\ files' = r.files
        /\ stack' = IF r.kind = "err" THEN <<>>
                    ELSE IF r.kind = "enter"
                        THEN [stack EXCEPT ![n] = rest] \o <<NewFrame(world, c)>>
                    ELSE IF r.kind = "push"
                        THEN [stack EXCEPT ![n] = [rest EXCEPT !.entries = @ \o <<r.entry>>]]
                    ELSE [stack EXCEPT ![n] = rest]
        /\ walk' = [walk EXCEPT
                      !.status = IF r.kind = "err" THEN "err" ELSE @,
                      !.fault = IF fault # "" THEN fault ELSE @,
                      !.failed = IF fault = "read_dir" THEN c
                                 ELSE IF fault # "" THEN Top.path ELSE @,
                      !.wrote = IF r.kind = "push" THEN @ \cup {r.entry.hash} ELSE @,
                      !.torn = r.torn]
        /\ UNCHANGED <<input, last, nops, ignore, world, procs>>

\* the next child the directory iterator yields, every call succeeding
VisitChild ==
    /\ walk.status = "running"
    /\ \E c \in Top.todo :
          LET r == Visit(world, ignore, dirs, files, c, "none", 0)
          IN  AfterVisit(c, r, IF r.kind = "err" THEN "name" ELSE "")

\* the next child the directory iterator yields, one call failing
VisitFault ==
    /\ walk.status = "running"
    /\ \E c \in Top.todo, fault \in Faults \ {"none"} :
          /\ FaultStage(world, ignore, files, c, fault) # ""
          /\ \E cut \in IF fault = "write_err"
                        THEN PartialCuts(ZlibEncode(Content(Blob(Nodes(world)[c].data))))
                        ELSE {0} :
                AfterVisit(c, Visit(world, ignore, dirs, files, c, fault, cut),
                           FaultStage(world, ignore, files, c, fault))

\* the loop of the top frame is over: sort, write the tree, return its hash
\* to the caller, which pushes the directory's entry
FinishDir ==
    /\ walk.status = "running"
    /\ Top.todo = {}
    /\ LET n == Len(stack)
           sorted == SortEntries(Top.entries)
       IN  \E how \in Outcomes : \E cut \in Cuts(Tree(sorted), how) :
             LET r == Write(dirs, files, Tree(sorted), how, cut)
             IN  /\ how # "ok" => ~r.existed
                 /\ dirs' = r.dirs
                 /\ files' = r.files
                 /\ stack' =
                       IF ~r.ok THEN <<>>
                       ELSE IF n = 1 THEN <<>>
                       ELSE [Pop(stack) EXCEPT ![n - 1].entries =
                               @ \o <<Entry(ModeDir, FileName(Top.path), r.hash)>>]
                 /\ walk' =
                       IF ~r.ok
                       THEN [walk EXCEPT !.status = "err", !.fault = "write",
                                         !.failed = Top.path,
                                         !.torn = IF r.files = files THEN <<>>
                                                  ELSE Address(Sha1Hex(Content(Tree(sorted))))]
                       ELSE [walk EXCEPT
                               !.status = IF n = 1 THEN "ok" ELSE @,
                               !.result = IF n = 1 THEN r.hash ELSE @,
                               !.wrote = @ \cup {r.hash},
                               !.shuffled = @ \/ Top.entries # sorted,
                               !.trees = @ \cup {[path |-> Top.path, hash |-> r.hash,
                                                  entries |-> sorted]}]
    /\ UNCHANGED <<input, last, nops, ignore, world, procs>>

NextWalk == StartWalk \/ StartFails \/ VisitChild \/ VisitFault \/ FinishDir

SpecWalk == InitWalk /\ [][NextWalk]_vars

-----------------------------------------------------------------------------
(* Claims about the walk *)

\* the paths in S as a sequence in ascending order of file name
RECURSIVE ByName(_)
ByName(S) ==
    IF S = {} THEN <<>>
    ELSE LET p == CHOOSE x \in S : \A y \in S \ {x} : LexLess(FileName(x), FileName(y))
         IN  <<p>> \o ByName(S \ {p})

\* the tree of a directory when its children are enumerated in ascending
\* filename order and appended as they come
RECURSIVE RefEntries(_, _, _)
RECURSIVE RefChildren(_, _, _)
RefChildren(w, ign, ps) ==
    IF ps = <<>> THEN <<>>
    ELSE LET c == Head(ps)
             node == Nodes(w)[c]
             rest == RefChildren(w, ign, Tail(ps))
         IN  IF Absolute(c) \in ign \/ node.kind = "symlink" THEN rest
             ELSE IF node.kind = "dir"
                 THEN <<Entry(ModeDir, FileName(c),
                              Sha1Hex(Content(Tree(RefEntries(w, ign, c)))))>> \o rest
             ELSE <<Entry(ModeOf(node), FileName(c), Sha1Hex(Content(Blob(node.data))))>>
                  \o rest

RefEntries(w, ign, dir) == RefChildren(w, ign, ByName(Children(w, dir)))

Ascending(entries) ==
    \A i \in 1..(Len(entries) - 1) : LexLess(entries[i].filename, entries[i + 1].filename)

\* C4: every tree the walk writes has its entries in strictly ascending
\* byte-wise filename order, and whatever order the directories were
\* enumerated in, the walk returns the hash, and stores the bytes, of the
\* tree that the ascending enumeration gives.
C4_CanonicalOrdering ==
    /\ \A t \in walk.trees : Ascending(t.entries)
    /\ walk.status = "ok" =>
          LET ref == Content(Tree(RefEntries(world, ignore, <<46>>)))
          IN  /\ walk.result = Sha1Hex(ref)
              /\ Address(walk.result) \in DOMAIN files
              /\ files[Address(walk.result)] = ZlibEncode(ref)

\* C4 witness: a walk that met some directory out of filename order returned
C4_Witness ==
    /\ walk.status = "ok"
    /\ walk.shuffled
    /\ \E t \in walk.trees : Len(t.entries) >= 3

\* path n is an entry of the tree written for its parent directory
InTree(n) ==
    \E t \in walk.trees :
        /\ t.path = Parent(n)
        /\ \E i \in 1..Len(t.entries) : t.entries[i].filename = FileName(n)

Excluded(n) == Absolute(n) \in ignore

\* the directories between the walked root and n, both left out
Between(n) == {Take(n, i - 1) : i \in {j \in 3..Len(n) : n[j] = 47}}

Walked == DOMAIN Nodes(world)

\* the first half of C5: an excluded path is never an entry
NeverListed == \A n \in Walked : Excluded(n) => ~InTree(n)

\* C5 (as claimed): an excluded path is never an entry of a written tree, and
\* after a build every file or directory under the root that is no symlink
\* and not itself excluded is an entry of its parent's tree.
C5_ExclusionAsClaimed ==
    /\ NeverListed
    /\ walk.status = "ok" =>
          \A n \in Walked :
              (Nodes(world)[n].kind # "symlink" /\ ~Excluded(n)) => InTree(n)

\* C5 (amended): an excluded path is never an entry of a written tree, and
\* after a successful build every file or directory under the root that is
\* no symlink, is not itself excluded and lies in no directory that is
\* excluded or reached through a symlink is an entry of its parent's tree,
\* also when an excluded path is a string prefix of its path.
C5_ExclusionExact ==
    /\ NeverListed
    /\ walk.status = "ok" =>
          \A n \in Walked :
              (/\ Nodes(world)[n].kind # "symlink"
               /\ ~Excluded(n)
               /\ \A a \in Between(n) : ~Excluded(a) /\ Nodes(world)[a].kind # "symlink")
              => InTree(n)

\* C5 witness: ./d/a is excluded and left out, ./d/ab shares its prefix and
\* is listed
C5_Witness ==
    /\ walk.status = "ok"
    /\ Excluded(<<46, 47, 100, 47, 97>>)
    /\ ~InTree(<<46, 47, 100, 47, 97>>)
    /\ ~Excluded(<<46, 47, 100, 47, 97, 98>>)
    /\ InTree(<<46, 47, 100, 47, 97, 98>>)

\* the entries of the record at address a when it is a complete tree
\* record, <<>> otherwise
StoredTreeEntries(a) ==
    LET z == ZlibDecode(files[a])
        t == ReadUntil(z.data, 32)
        payload == ReadUntil(t.rest, 0).rest
        d == DecodeEntries(payload)
    IN  IF z.ok /\ Pop(t.taken) = S_tree /\ d.ok THEN d.entries ELSE <<>>

\* C7: in every state of a walk, finished, aborted or under way, each entry
\* of each tree record in the store points at an address that holds a record.
C7_ChildrenFirst ==
    \A a \in DOMAIN files :
        \A i \in 1..Len(StoredTreeEntries(a)) :
            Address(StoredTreeEntries(a)[i].hash) \in DOMAIN files

\* C7 witness: a stored tree lists a directory, and the tree of that
\* directory, which has entries of its own, is stored
C7_Witness ==
    \E a \in DOMAIN files :
        \E i \in 1..Len(StoredTreeEntries(a)) :
            /\ StoredTreeEntries(a)[i].mode = ModeDir
            /\ Address(StoredTreeEntries(a)[i].hash) \in DOMAIN files
            /\ StoredTreeEntries(Address(StoredTreeEntries(a)[i].hash)) # <<>>


\* directory p and the directories above it, up to the walked root
SelfAndAbove(p) == {p} \cup {Take(p, i - 1) : i \in {j \in 1..Len(p) : p[j] = 47}}

\* a fault ends the walk with an error, and no tree was written for the
\* directory it struck or for a directory above it
AbortsWhole ==
    walk.fault # "" =>
        /\ walk.status = "err"
        /\ stack = <<>>
        /\ \A t \in walk.trees : t.path \notin SelfAndAbove(walk.failed)

\* the record at address a is the complete record of a write call that
\* returned during the walk
Completed(a) == ZlibDecode(files[a]).ok /\ \E h \in walk.wrote : Address(h) = a

\* C8 (as claimed): a fault aborts the whole walk with an error, no tree is
\* written for the directory it struck or any directory above it, and the
\* store holds only the objects of children completed before the fault.
C8_NoPartialAsClaimed ==
    /\ AbortsWhole
    /\ walk.fault # "" => \A a \in DOMAIN files : Completed(a)

\* C8 (amended): a fault aborts the whole walk with an error, no tree is
\* written for the directory it struck or any directory above it, and the
\* store holds only the objects of children completed before the fault and,
\* when the fault is a failing object write, possibly a truncated record at
\* that object's address.
C8_NoPartialTree ==
    /\ AbortsWhole
    /\ walk.fault # "" =>
          \A a \in DOMAIN files :
              \/ Completed(a)
              \/ a = walk.torn /\ walk.fault = "write" /\ ~ZlibDecode(files[a]).ok

\* C8 witness: reading ./b failed after the tree of ./d had been written; the
\* walk ended with an error, the tree and blobs of ./d remain
C8_Witness ==
    /\ walk.status = "err"
    /\ walk.fault = "read"
    /\ walk.failed = <<46>>
    /\ \E t \in walk.trees : t.path = <<46, 47, 100>> /\ Len(t.entries) = 2
    /\ Cardinality(DOMAIN files) = 3

-----------------------------------------------------------------------------
(* Object::write run by several processes on one store, one file system
   call per step *)

\* the objects the writers hold: the seed's bytes or an empty blob
RaceObjects == {Blob(<<>>), Seed}

\* a pwrite that appends instead of writing at the writer's own offset
AppendAt(f, off, bytes) == f \o bytes

\* write(2) on the writer's own file description: `bytes` land at its
\* offset `off`; a gap left by another writer's truncation reads as zeros
WriteAt(f, off, bytes) ==
    LET gap == IF Len(f) < off THEN [i \in 1..(off - Len(f)) |-> 0] ELSE <<>>
    IN  Take(f, Min({off, Len(f)})) \o gap \o bytes \o Drop(f, off + Len(bytes) + 1)

\* the most bytes one write(2) call of write_all takes
ChunkLen(z) == Max({1, (Len(z) + Chunks - 1) \div Chunks})

\* a write_all loop that stops after its first chunk
WriteAllShort(z, off) == off > 0

\* write_all loops until the whole buffer is written
WriteAllDone(z, off) == off = Len(z)

\* a process before its write call: the locals of Object::write
Writer(o) ==
    [obj |-> o, pc |-> "exists", hash |-> <<>>, compressed |-> <<>>, off |-> 0,
     opened |-> FALSE, ok |-> FALSE]

InitRace ==
    /\ procs \in [1..Writers -> {Writer(o) : o \in RaceObjects}]
    /\ \/ dirs = {} /\ files = NoFiles
       \/ dirs = SeedStore.dirs /\ files = SeedStore.files
    /\ input = NoObject
    /\ last = NoCall
    /\ nops = 0
    /\ stack = <<>>
    /\ ignore = {}
    /\ walk = NoWalk
    /\ world = <<>>

RaceFrame == UNCHANGED <<input, last, nops, stack, ignore, walk, world>>

\* the hash is computed, then `if filepath.exists() { return Ok(hash) }`
CheckExists(p) ==
    LET hash == Sha1Hex(Content(procs[p].obj))
    IN  /\ procs[p].pc = "exists"
        /\ procs' = [procs EXCEPT ![p].hash = hash,
                                  ![p].pc = IF Exists(files, hash) THEN "returned"
                                            ELSE "create_dir_all",
                                  ![p].ok = Exists(files, hash)]
        /\ UNCHANGED <<dirs, files>>
        /\ RaceFrame

\* fs::create_dir_all(&dir)?, then the content is compressed
CreateDirAll(p) ==
    /\ procs[p].pc = "create_dir_all"
    /\ dirs' = dirs \cup {Take(procs[p].hash, 2)}
    /\ procs' = [procs EXCEPT ![p].pc = "create",
                              ![p].compressed = ZlibEncode(Content(procs[p].obj))]
    /\ UNCHANGED files
    /\ RaceFrame

\* fs::write, first half: File::create makes the file or truncates it
CreateFile(p) ==
    /\ procs[p].pc = "create"
    /\ files' = PutFile(files, procs[p].hash, <<>>)
    /\ procs' = [procs EXCEPT ![p].pc = "write_all", ![p].opened = TRUE]
    /\ UNCHANGED dirs
    /\ RaceFrame

\* fs::write, second half: one write(2) call of write_all
WriteChunk(p) ==
    LET z == procs[p].compressed
        off == procs[p].off
        n == Min({ChunkLen(z), Len(z) - off})
    IN  /\ procs[p].pc = "write_all"
        /\ ~WriteAllDone(z, off)
        /\ files' = PutFile(files, procs[p].hash,
                            WriteAt(files[Address(procs[p].hash)], off, SubSeq(z, off + 1, off + n)))
        /\ procs' = [procs EXCEPT ![p].off = off + n]
        /\ UNCHANGED dirs
        /\ RaceFrame

\* Ok(hash) after fs::write
ReturnOk(p) ==
    /\ procs[p].pc = "write_all"
    /\ WriteAllDone(procs[p].compressed, procs[p].off)
    /\ procs' = [procs EXCEPT ![p].pc = "returned", ![p].ok = TRUE]
    /\ UNCHANGED <<dirs, files>>
    /\ RaceFrame

\* the `?` after create_dir_all and fs::write: the call that was due fails
\* and the error is returned, whatever is on disk stays
ReturnErr(p) ==
    /\ \/ procs[p].pc \in {"create_dir_all", "create"}
       \/ procs[p].pc = "write_all" /\ ~WriteAllDone(procs[p].compressed, procs[p].off)
    /\ procs' = [procs EXCEPT ![p].pc = "returned", ![p].ok = FALSE]
    /\ UNCHANGED <<dirs, files>>
    /\ RaceFrame

NextRace ==
    \E p \in 1..Writers :
        \/ CheckExists(p)
        \/ CreateDirAll(p)
        \/ CreateFile(p)
        \/ WriteChunk(p)
        \/ ReturnOk(p)
        \/ ReturnErr(p)

SpecRace == InitRace /\ [][NextRace]_vars

-----------------------------------------------------------------------------
(* Claims about racing writers *)

\* the record a single write of p's object produces, and where
Expected(p) == ZlibEncode(Content(procs[p].obj))

Target(p) == Address(Sha1Hex(Content(procs[p].obj)))

\* the writers holding the same encoded bytes as p
SameObject(p) == {q \in 1..Writers : Content(procs[q].obj) = Content(procs[p].obj)}

Returned(p) == procs[p].pc = "returned" /\ procs[p].ok

\* C9: writers of identical encoded bytes return the same hash under every
\* interleaving of their steps, and once all of them have returned it the
\* record at its address is exactly the compressed framed bytes a single
\* write produces.
C9_RacingWritersConverge ==
    \A p \in 1..Writers :
        /\ \A q \in SameObject(p) :
               Returned(p) /\ Returned(q) => procs[p].hash = procs[q].hash
        /\ (\A q \in SameObject(p) : Returned(q)) =>
               /\ Address(procs[p].hash) = Target(p)
               /\ Target(p) \in DOMAIN files
               /\ files[Target(p)] = Expected(p)

\* C9 witness: two writers of the same bytes both found the record absent,
\* both wrote every byte and both returned
C9_Witness ==
    \E p, q \in 1..Writers :
        /\ p # q
        /\ q \in SameObject(p)
        /\ Returned(p) /\ Returned(q)
        /\ procs[p].opened /\ procs[q].opened
        /\ procs[p].off = Len(Expected(p)) /\ procs[q].off = Len(Expected(q))
        /\ files[Target(p)] = Expected(p)

\* p returns Ok(hash) in this step
ReturnsNow(p) == procs[p].pc # "returned" /\ procs'[p].pc = "returned" /\ procs'[p].ok

\* C10 (as claimed): at the moment a write call returns hash h, the file at
\* the address of h holds the complete compressed framed bytes of the object.
C10_ReturnedComplete ==
    [][\A p \in 1..Writers :
           ReturnsNow(p) =>
               /\ Address(procs'[p].hash) \in DOMAIN files'
               /\ files'[Address(procs'[p].hash)] = Expected(p)]_vars

\* C10 (amended): at the moment a write call returns hash h, a file exists at
\* the address of h, and it holds the complete record provided every other
\* call on the same bytes that has created the file, running or failed, has
\* written all of its bytes.
C10_ReturnedPresent ==
    [][\A p \in 1..Writers :
           ReturnsNow(p) =>
               /\ Address(procs'[p].hash) \in DOMAIN files'
               /\ (\A q \in SameObject(p) \ {p} :
                       procs[q].opened => procs[q].off = Len(procs[q].compressed))
                  => files'[Address(procs'[p].hash)] = Expected(p)]_vars

\* C10 witness: a writer returned from the exists check on a file another
\* writer of the same bytes had created and filled but not yet returned from
C10_Witness ==
    \E p, q \in 1..Writers :
        /\ p # q
        /\ q \in SameObject(p)
        /\ Returned(p) /\ ~procs[p].opened
        /\ procs[q].pc = "write_all" /\ procs[q].off = Len(procs[q].compressed)
        /\ files[Target(p)] = Expected(p)
        /\ Target(p) \notin DOMAIN SeedStore.files

====
